---- MODULE Spec2Model ----
(***************************************************************************)
(* Invite-ledger Discord bot: the balance ledger and the slash-command     *)
(* handlers of src/bot.js (Postgres pool, async/await) and of              *)
(* src/unnamed/part_000 (sqlite3, callbacks).                              *)
(*                                                                         *)
(* Balances are IEEE-754 doubles (DOUBLE PRECISION / REAL columns, JS      *)
(* numbers).  Every balance the program can hold is a sum of +0.2 / -0.2   *)
(* literals, hence an integer multiple of 2^-55; a double is modelled by   *)
(* its sign and its magnitude in units of 2^-55, the magnitude being kept  *)
(* in three base-2^24 limbs <<hi, mid, lo>> so that it fits TLC integers.  *)
(***************************************************************************)
EXTENDS Integers, Sequences, FiniteSets, Bags

\* ---------------------------------------------------------------- bounds
\* Handlers in flight, command invocations and member joins together, once
\* both startup tasks have succeeded.
MaxInFlight == 2
\* Handlers in flight while a startup task is pending or has failed.
MaxEarly == 1
\* addBalance statements executed over a run.
MaxAdds == 2
\* Largest limit getLeaderboard is evaluated with as a pure function.
MaxLimit == 3

\* ------------------------------------------------------ double arithmetic
Base == 16777216

MagZero == <<0, 0, 0>>

MagLess(a, b) ==
  \/ a[1] < b[1]
  \/ a[1] = b[1] /\ a[2] < b[2]
  \/ a[1] = b[1] /\ a[2] = b[2] /\ a[3] < b[3]

MagAdd(a, b) ==
  LET lo  == a[3] + b[3]
      mid == a[2] + b[2] + (lo \div Base)
      hi  == a[1] + b[1] + (mid \div Base)
  IN  <<hi, mid % Base, lo % Base>>

\* a - b for a >= b
MagSub(a, b) ==
  LET lo  == a[3] - b[3]
      bl  == IF lo < 0 THEN 1 ELSE 0
      mid == a[2] - b[2] - bl
      bm  == IF mid < 0 THEN 1 ELSE 0
      hi  == a[1] - b[1] - bm
  IN  <<hi, mid + bm * Base, lo + bl * Base>>

MagMulSmall(a, k) ==
  LET lo  == a[3] * k
      mid == a[2] * k + (lo \div Base)
      hi  == a[1] * k + (mid \div Base)
  IN  <<hi, mid % Base, lo % Base>>

\* Spacing of the doubles around a magnitude, in units of 2^-55: magnitudes
\* below 2^53 units (hi < 2^5) are exact, each further binade doubles it.
RECURSIVE UlpOfHi(_)
UlpOfHi(hi) == IF hi < 32 THEN 1 ELSE 2 * UlpOfHi(hi \div 2)

\* Round an exact magnitude to the nearest double, ties to even.
RoundMag(a) ==
  LET u    == UlpOfHi(a[1])
      r    == a[3] % u
      down == <<a[1], a[2], a[3] - r>>
      odd  == ((a[3] \div u) % 2) = 1
  IN  IF r = 0 THEN a
      ELSE IF 2 * r > u \/ (2 * r = u /\ odd) THEN MagAdd(down, <<0, 0, u>>)
      ELSE down

Dbl(neg, m) == [neg |-> neg /\ m # MagZero, m |-> m]

DZero == Dbl(FALSE, MagZero)

DNeg(x) == Dbl(~x.neg, x.m)

\* The exact (unrounded) sum of two signed magnitudes.
ExactAdd(x, y) ==
  IF x.neg = y.neg THEN Dbl(x.neg, MagAdd(x.m, y.m))
  ELSE IF MagLess(x.m, y.m) THEN Dbl(y.neg, MagSub(y.m, x.m))
  ELSE Dbl(x.neg, MagSub(x.m, y.m))

\* x + y in double precision (round to nearest even); an exact zero is +0.
FloatAdd(x, y) ==
  LET e == ExactAdd(x, y) IN Dbl(e.neg, RoundMag(e.m))

DLess(x, y) ==
  IF x.neg # y.neg THEN x.neg
  ELSE IF x.neg THEN MagLess(y.m, x.m)
  ELSE MagLess(x.m, y.m)

\* Number.prototype.toFixed(2): the sign and the integer n of hundredths
\* nearest to |x| (the larger on a tie), n = floor((100 N + 2^54) / 2^55).
ToFixed2(x) ==
  LET c == MagMulSmall(x.m, 100)
  IN  [neg |-> x.neg, cents |-> (c[1] + 64) \div 128]

\* The literal 0.2 of the verify / unverify handlers: the double nearest
\* 1/5 is 7205759403792794 * 2^-55.
VerifyDelta == Dbl(FALSE, <<25, 10066329, 10066330>>)

UnverifyDelta == DNeg(VerifyDelta)

\* ------------------------------------------------------------ the ledger
OWNER_ID == "owner"

\* Identities that invoke commands.
Users == {"owner", "u1"}

\* Identities named as the invited member and as the inviter.
Members == {"u2"}

Inviters == {"u1"}

\* Rows of other users the balances table may hold from earlier runs.
PriorIds == <<"p01", "p02", "p03", "p04", "p05", "p06", "p07", "p08",
              "p09", "p10", "p11", "p12", "p13", "p14", "p15">>

\* The balance left by k verifies: 0.2, 0.4, 0.6000000000000001, ...
RECURSIVE Credited(_)
Credited(k) == IF k = 0 THEN DZero ELSE FloatAdd(Credited(k - 1), VerifyDelta)

EmptyTable == [u \in {} |-> DZero]

\* The verifies earlier runs applied: two for u1, k for the k-th other user.
PriorVerifies ==
  [u \in {PriorIds[k] : k \in DOMAIN PriorIds} \cup {"u1"} |->
     IF u = "u1" THEN 2
     ELSE CHOOSE k \in DOMAIN PriorIds : PriorIds[k] = u]

\* A table written by earlier runs: fifteen other users and u1 at 0.4.
PriorTable == [u \in DOMAIN PriorVerifies |-> Credited(PriorVerifies[u])]

\* The query without its WHERE clause: the first row, whoever's it is.
SelectBalanceAnyRow(t, userId) ==
  IF DOMAIN t # {}
  THEN LET v == CHOOSE v \in DOMAIN t : TRUE
       IN  <<[user_id |-> v, balance |-> t[v]]>>
  ELSE <<>>

\* SELECT balance FROM balances WHERE user_id = $1
SelectBalance(t, userId) ==
  IF userId \in DOMAIN t THEN <<[user_id |-> userId, balance |-> t[userId]]>>
  ELSE <<>>

\* getBalance's value from the rows of its query: the row's balance, else 0.
\* (The driver hands bot.js a JS number; parseFloat of a number is that number.)
GetBalance(rows) == IF rows # <<>> THEN rows[1].balance ELSE DZero

\* The balance getBalance reads for a user from a table.
BalanceOf(t, userId) == GetBalance(SelectBalance(t, userId))

\* The upsert overwriting on conflict (SET balance = EXCLUDED.balance).
UpsertOverwrite(t, userId, amount) ==
  [u \in DOMAIN t \cup {userId} |-> IF u # userId THEN t[u] ELSE amount]

\* INSERT ... ON CONFLICT (user_id) DO UPDATE SET balance = balance + amount
Upsert(t, userId, amount) ==
  [u \in DOMAIN t \cup {userId} |->
     IF u # userId THEN t[u]
     ELSE IF userId \in DOMAIN t THEN FloatAdd(t[userId], amount)
     ELSE amount]

\* SELECT user_id, balance FROM balances ORDER BY balance DESC LIMIT n:
\* every row sequence the statement may return; SQL leaves the order of
\* rows with equal balances to the engine.  MaxBalance is the largest
\* balance among the rows S, Ranked the orders the rows S may come in.
RECURSIVE MaxBalance(_, _)
MaxBalance(t, S) ==
  LET u == CHOOSE u \in S : TRUE
  IN  IF S = {u} THEN t[u]
      ELSE LET m == MaxBalance(t, S \ {u})
           IN  IF DLess(m, t[u]) THEN t[u] ELSE m

RECURSIVE Ranked(_, _, _)
Ranked(t, S, n) ==
  IF n = 0 \/ S = {} THEN {<<>>}
  ELSE LET mx  == MaxBalance(t, S)
           top == {u \in S : ~DLess(t[u], mx)}
       IN  UNION {{<<[user_id |-> u, balance |-> t[u]]>> \o r :
                     r \in Ranked(t, S \ {u}, n - 1)} : u \in top}

SelectTop(t, n) == Ranked(t, DOMAIN t, n)

\* getLeaderboard(15) of the leaderboard handler.
LeaderboardLimit == 15

\* ------------------------------------------------------------- the state
VARIABLES
  program,   \* which entry point runs: "bot" (src/bot.js) or "legacy" (part_000)
  pool,      \* bot.js: a Pool was constructed (DATABASE_URL set); part_000: db
  start,     \* which table the process found: "empty" or "prior"
  balances,  \* the balances table: user_id -> balance, one entry per row
  inv,       \* the command invocations in flight, and the one that ended
             \* last: a bag of handler records
  nAdds,     \* addBalance statements executed so far
  applied,   \* per user: upserts completed, verifies minus unverifies
  history,   \* per user: the upserts completed, in the order the store
             \* executed them: 1 for a verify's, -1 for an unverify's
  credited,  \* the invokers an upsert was ever applied to, earlier runs included
  trip,      \* per user: a verify directly followed by an unverify, and the
             \* balance before that verify
  boot,      \* the startup tasks, the gateway login and the process itself
  joins      \* the guildMemberAdd handlers in flight: a bag of handler records

vars == <<program, pool, start, balances, inv, nAdds, applied, history, credited, trip,
          boot, joins>>

NoUser == "-"

Commands == {"balance", "verify", "unverify", "leaderboard", "other"}

Privileged == {"verify", "unverify"}

NoContent == [kind |-> "none", neg |-> FALSE, cents |-> 0, lines |-> <<>>]

Content(kind) == [NoContent EXCEPT !.kind = kind]

\* One handler activation.
\* pc: "reply" interaction.reply in flight; "defer" deferReply in flight;
\*     "query" awaiting the store; "edit" editReply in flight; "catch" the
\*     catch block's editReply in flight; "done" returned; "lost" ended
\*     with the process.
\* st: its store call as the driver reports it: "none", "pending", "ok",
\*     "failed".
\* vis: visibility of its response; acked: deferReply resolved.
\* esc: what left the handler unhandled: "gateway" a rejected reply /
\*     deferReply / editReply promise, "store" a statement's error event.
\* ackAtQuery / stAtEdit: acked and st as they were when the store call and
\*     the first editReply were issued.
\* exec: the store has executed its statement; rows: the rows the statement
\*     returned, until the handler has taken them.
Fresh ==
  [cmd |-> "none", user |-> NoUser, member |-> NoUser, inviter |-> NoUser,
   pc |-> "defer", vis |-> "none", acked |-> FALSE, st |-> "none",
   out |-> NoContent, reply |-> NoContent, nReplies |-> 0,
   esc |-> {}, ackAtQuery |-> FALSE, stAtEdit |-> "none",
   exec |-> FALSE, rows |-> <<>>]

NoTrip == [phase |-> "none", before |-> DZero]

\* The deployments: bot.js with DATABASE_URL on an empty table or on one
\* holding rows of earlier runs, bot.js without DATABASE_URL, part_000 with
\* a new database file.
Deployments ==
  {<<"bot", TRUE, "empty">>, <<"bot", TRUE, "prior">>,
   <<"bot", FALSE, "empty">>,
   <<"legacy", TRUE, "empty">>}

\* The tables a process may find.
Tables == [empty |-> EmptyTable, prior |-> PriorTable]

\* The balances table as the process found it.
StartTable == Tables[start]

\* The process when the module has been evaluated: every startup task has
\* run to its first await and none is awaited by the next.
\* db:    the database task: "off" no pool (bot.js), "connect" pool.connect()
\*        / the opening of the sqlite file in flight, "ensure" the CREATE
\*        TABLE in flight, "ok", "failed".
\* reg:   the registration task: "put" rest.put in flight, "ok", "failed".
\* login: client.login: "pending", "ready", "failed".
\* exit:  what ended the process: "none"; "database" the error event, without
\*        a listener, of the opening of the database or of its CREATE TABLE;
\*        "store" that of a handler's statement; "login" the rejected login
\*        promise; "rejection" the rejected promise of a command handler.
\* log:   the startup tasks whose failure console.error has reported.
Boot0(prog, p) ==
  [db |-> IF prog = "bot" /\ ~p THEN "off" ELSE "connect",
   reg |-> "put", login |-> "pending", exit |-> "none", log |-> {}]

\* The process once both startup tasks have succeeded and the client is
\* logged in.
Booted(p) ==
  [db |-> IF p THEN "ok" ELSE "off",
   reg |-> "ok", login |-> "ready", exit |-> "none", log |-> {}]

\* The state of the store and of the command handlers when the module has
\* been evaluated.
Started ==
  /\ \E d \in Deployments :
       program = d[1] /\ pool = d[2] /\ start = d[3] /\ balances = Tables[d[3]]
  /\ inv = EmptyBag
  /\ nAdds = 0
  /\ applied = [u \in Users |-> 0]
  /\ history = [u \in Users |-> <<>>]
  /\ credited = DOMAIN balances \cap Users
  /\ trip = [u \in Users |-> NoTrip]

\* Command handling: the process has come up, its startup tasks have
\* succeeded and the client is logged in.
Init ==
  /\ Started
  /\ boot = Booted(pool)
  /\ joins = EmptyBag

Invs == BagToSet(inv)

\* The handler has returned and its store call is settled: the invocation
\* is over.
Settled(r) == r.pc = "done" /\ r.st # "pending"

Unsettled(b) == [x \in {y \in BagToSet(b) : ~Settled(y)} |-> b[x]]

\* The bag b with q added.  Of the invocations that are over only the one
\* that ended last is kept.
Put(b, q) == (IF Settled(q) THEN Unsettled(b) ELSE b) (+) SetToBag({q})

\* The bag with one copy of r replaced by q.
Step(r, q) == Put(inv (-) SetToBag({r}), q)

\* ----------------------------------------------------- reply construction
\* unverify passing 0.2 instead of -0.2.
DeltaSameSign(cmd) == VerifyDelta

\* addBalance(inviter.id, 0.2) of verify, addBalance(inviter.id, -0.2) of unverify.
Delta(cmd) == IF cmd = "verify" THEN VerifyDelta ELSE UnverifyDelta

\* `Your current balance is **${balance.toFixed(2)}**`
BalanceContent(rows) ==
  LET f == ToFixed2(GetBalance(rows))
  IN  [NoContent EXCEPT !.kind = "balance", !.neg = f.neg, !.cents = f.cents]

\* The ranked list numbered from i instead of i + 1.
BoardLinesZeroBased(rows) ==
  [i \in 1..Len(rows) |->
     [rank |-> i - 1, user |-> rows[i].user_id,
      neg |-> ToFixed2(rows[i].balance).neg,
      cents |-> ToFixed2(rows[i].balance).cents]]

\* rows.map((row, i) => `${i + 1}. <@${row.user_id}> - **${balance.toFixed(2)}**`)
BoardLines(rows) ==
  [i \in 1..Len(rows) |->
     [rank |-> i, user |-> rows[i].user_id,
      neg |-> ToFixed2(rows[i].balance).neg,
      cents |-> ToFixed2(rows[i].balance).cents]]

\* "No data yet!" for no rows, else the ranked list.
BoardContent(rows) ==
  IF Len(rows) = 0 THEN Content("nodata")
  ELSE [NoContent EXCEPT !.kind = "board", !.lines = BoardLines(rows)]

\* The content the handler sends once its store call has succeeded.
SuccessContent(cmd, rows) ==
  CASE cmd = "balance"     -> BalanceContent(rows)
    [] cmd = "verify"      -> Content("verified")
    [] cmd = "unverify"    -> Content("unverified")
    [] cmd = "leaderboard" -> BoardContent(rows)

\* --------------------------------------------------------------- actions
\* The handlers read the invoker's identity for balance and for the owner
\* check of verify / unverify only.
Invokers(cmd) == IF cmd \in {"leaderboard", "other"} THEN {"u1"} ELSE Users

Args(cmd) ==
  IF cmd \in Privileged THEN Members \X Inviters ELSE {<<NoUser, NoUser>>}

\* The handler without the owner check.
EntryNoOwnerCheck(cmd, user) == IF cmd = "other" THEN "done" ELSE "defer"

\* Where interactionCreate stands after its first synchronous run: an
\* unknown command has returned, a non-owner verify / unverify has issued
\* the ephemeral rejection, everything else has issued deferReply.
Entry(cmd, user) ==
  IF cmd = "other" THEN "done"
  ELSE IF cmd \in Privileged /\ user # OWNER_ID THEN "reply"
  ELSE "defer"

\* The process is running.
Alive == boot.exit = "none"

\* client.login has resolved: the gateway delivers events.
Listening == Alive /\ boot.login = "ready"

\* Both startup tasks have succeeded (the database task counting as such
\* where there is no pool).
Steady == boot.db \in {"ok", "off"} /\ boot.reg = "ok"

\* The handlers in flight, and those the model lets be in flight.
Load == BagCardinality(inv) + BagCardinality(joins)

Room == IF Steady THEN MaxInFlight ELSE MaxEarly

\* part_000: the sqlite database is open; statements issued before that
\* are queued.  The pool of bot.js takes statements at any time.
Opened == program = "legacy" => boot.db # "connect"

\* A handler that ended with the process: what it had been acknowledged,
\* shown and issued, and what the store had executed for it, stands; it
\* takes no further step.
Cut(o) == [o EXCEPT !.pc = "lost"]

\* An error leaves handler r, which ends as q, and nothing handles it: the
\* process ends with exit x, and its other handlers end with it; a
\* statement the store has not executed by then is taken as not executed.
\* A promise a command handler leaves rejected is captured by the client
\* (discord.js constructs it with captureRejections) and emitted as its
\* "error" event; like the "error" event of a sqlite statement it has no
\* listener and is thrown.
Ends(r, q, x) ==
  /\ boot' = [boot EXCEPT !.exit = x]
  /\ inv' = SetToBag({q}) (+) BagOfAll(Cut, Unsettled(inv (-) SetToBag({r})))

\* The invocations in flight that call addBalance: verify / unverify by
\* the owner.
Adding(r) == r.cmd \in Privileged /\ r.user = OWNER_ID

\* Those whose statement the store may still execute.
Waiting ==
  [x \in {r \in Invs : Adding(r) /\ ~r.exec
                        /\ (r.pc = "defer" \/ r.st = "pending")} |-> inv[x]]

\* An interactionCreate event is delivered and its handler runs to the
\* first await.
Receive ==
  /\ Listening
  /\ Load < Room
  /\ \E cmd \in Commands :
       \E user \in Invokers(cmd), a \in Args(cmd) :
         LET r == [Fresh EXCEPT !.cmd = cmd, !.user = user,
                                !.member = a[1], !.inviter = a[2],
                                !.pc = Entry(cmd, user)]
             adds == cmd \in Privileged /\ r.pc = "defer"
         IN  /\ adds => nAdds + BagCardinality(Waiting) < MaxAdds
             /\ inv' = Put(inv, r)
  /\ UNCHANGED <<boot, joins, program, pool, start, balances, nAdds, applied, history, credited, trip>>

\* interaction.reply({content: "Only the owner ...", ephemeral: true}) resolves.
ReplyDone(r) ==
  /\ Alive
  /\ r.pc = "reply"
  /\ inv' = Step(r, [r EXCEPT !.reply = Content("reject"), !.vis = "private",
                              !.nReplies = r.nReplies + 1, !.pc = "done"])
  /\ UNCHANGED <<boot, joins, program, pool, start, balances, nAdds, applied, history, credited, trip>>

\* The returned reply promise rejects: nothing in the handler catches it.
ReplyFailed(r) ==
  /\ Alive
  /\ r.pc = "reply"
  /\ Ends(r, [r EXCEPT !.esc = r.esc \cup {"gateway"}, !.pc = "done"], "rejection")
  /\ UNCHANGED <<joins, program, pool, start, balances, nAdds, applied, history, credited, trip>>

\* await interaction.deferReply(...) rejects, outside any try block.
DeferFailed(r) ==
  /\ Alive
  /\ r.pc = "defer"
  /\ Ends(r, [r EXCEPT !.esc = r.esc \cup {"gateway"}, !.pc = "done"], "rejection")
  /\ UNCHANGED <<joins, program, pool, start, balances, nAdds, applied, history, credited, trip>>

\* balance deferring without {ephemeral: true}.
AckVisPublic(cmd) == "public"

\* deferReply({ephemeral: true}) for balance, deferReply() otherwise.
AckVis(cmd) == IF cmd = "balance" THEN "private" ELSE "public"

\* bot.js after deferReply resolved: without a pool the store functions
\* return at once (0, nothing, []) and editReply is issued; with a pool the
\* query is issued and awaited.
BotAfterDefer(r) ==
  /\ Alive
  /\ program = "bot"
  /\ r.pc = "defer"
  /\ inv' = Step(r,
       IF pool
       THEN [r EXCEPT !.acked = TRUE, !.vis = AckVis(r.cmd), !.st = "pending",
                      !.ackAtQuery = TRUE, !.pc = "query"]
       ELSE [r EXCEPT !.acked = TRUE, !.vis = AckVis(r.cmd),
                      !.out = SuccessContent(r.cmd, <<>>),
                      !.stAtEdit = "none", !.pc = "edit"])
  /\ UNCHANGED <<boot, joins, program, pool, start, balances, nAdds, applied, history, credited, trip>>

\* part_000 after deferReply resolved: balance / leaderboard issue db.get /
\* db.all with a callback; verify / unverify issue db.run without one and
\* issue the confirming editReply in the same turn.
LegacyAfterDefer(r) ==
  /\ Alive
  /\ program = "legacy"
  /\ r.pc = "defer"
  /\ inv' = Step(r,
       IF r.cmd \in Privileged
       THEN [r EXCEPT !.acked = TRUE, !.vis = AckVis(r.cmd), !.st = "pending",
                      !.ackAtQuery = TRUE,
                      !.out = SuccessContent(r.cmd, <<>>),
                      !.stAtEdit = "pending", !.pc = "edit"]
       ELSE [r EXCEPT !.acked = TRUE, !.vis = AckVis(r.cmd), !.st = "pending",
                      !.ackAtQuery = TRUE, !.pc = "query"])
  /\ UNCHANGED <<boot, joins, program, pool, start, balances, nAdds, applied, history, credited, trip>>

\* The rows a statement may return when the store executes it.
Results(r) ==
  CASE r.cmd = "balance"     -> {SelectBalance(balances, r.user)}
    [] r.cmd = "leaderboard" -> SelectTop(balances, LeaderboardLimit)
    [] OTHER                 -> {<<>>}

Sign(cmd) == IF cmd = "verify" THEN 1 ELSE -1

\* A getBalance that inserts a zero row for a user it does not find.
WrittenReadsMaterialize(r) ==
  IF r.cmd \in Privileged THEN Upsert(balances, r.inviter, Delta(r.cmd))
  ELSE IF r.cmd = "balance" /\ r.user \notin DOMAIN balances
       THEN Upsert(balances, r.user, DZero)
  ELSE balances

\* verify / unverify crediting the member as well as the inviter.
WrittenBothUsers(r) ==
  IF r.cmd \in Privileged
  THEN Upsert(Upsert(balances, r.inviter, Delta(r.cmd)), r.member, Delta(r.cmd))
  ELSE balances

\* An unverify that is dropped when it would take the balance below zero.
WrittenFloorZero(r) ==
  IF r.cmd \in Privileged
  THEN LET t == Upsert(balances, r.inviter, Delta(r.cmd))
       IN  IF r.cmd = "unverify" /\ t[r.inviter].neg THEN balances ELSE t
  ELSE balances

\* The table after the store has executed the statement of r: addBalance's
\* upsert for verify / unverify, no change for the reads.
Written(r) ==
  IF r.cmd \in Privileged THEN Upsert(balances, r.inviter, Delta(r.cmd))
  ELSE balances

\* Bookkeeping of a completed statement.
Record(r) ==
  IF r.cmd \in Privileged
  THEN /\ applied' = [applied EXCEPT ![r.inviter] = applied[r.inviter] + Sign(r.cmd)]
       /\ history' = [history EXCEPT ![r.inviter] = Append(@, Sign(r.cmd))]
       /\ nAdds' = nAdds + 1
       /\ credited' = credited \cup {r.inviter}
       /\ trip' = [trip EXCEPT ![r.inviter] =
            IF r.cmd = "verify"
            THEN [phase |-> "verified", before |-> BalanceOf(balances, r.inviter)]
            ELSE IF trip[r.inviter].phase = "verified"
                 THEN [phase |-> "undone", before |-> trip[r.inviter].before]
            ELSE NoTrip]
  ELSE UNCHANGED <<applied, history, credited, trip, nAdds>>

\* The store executes the statement the handler waits for: pool.query of
\* bot.js, db.get / db.all of part_000.  The handler stays suspended; other
\* statements and handlers run before the result reaches it.
Executed(r) ==
  /\ Alive
  /\ Opened
  /\ r.pc = "query"
  /\ r.st = "pending"
  /\ \E rows \in Results(r) :
       inv' = Step(r, [r EXCEPT !.st = "ok", !.exec = TRUE, !.rows = rows])
  /\ balances' = Written(r)
  /\ Record(r)
  /\ UNCHANGED <<boot, joins, program, pool, start>>

\* The result reaches the handler: await pool.query resolves (bot.js), the
\* callback runs without err (part_000); editReply is issued with the
\* content built from the rows.
QueryOk(r) ==
  /\ Alive
  /\ r.pc = "query"
  /\ r.st = "ok"
  /\ inv' = Step(r, [r EXCEPT !.stAtEdit = "ok",
                              !.out = SuccessContent(r.cmd, r.rows),
                              !.rows = <<>>, !.pc = "edit"])
  /\ UNCHANGED <<boot, joins, program, pool, start, balances, nAdds, applied, history, credited, trip>>

\* bot.js: the connection to the server is lost after the statement was
\* executed and before its result arrived; pool.query rejects and the
\* catch block issues the error edit, with the statement applied.
ResultLost(r) ==
  /\ Alive
  /\ program = "bot"
  /\ r.pc = "query"
  /\ r.st = "ok"
  /\ inv' = Step(r, [r EXCEPT !.st = "failed", !.stAtEdit = "failed",
                              !.out = Content("error"), !.rows = <<>>,
                              !.pc = "catch"])
  /\ UNCHANGED <<boot, joins, program, pool, start, balances, nAdds, applied, history, credited, trip>>

\* The statement fails (connection lost, engine error), nothing is applied:
\* bot.js enters its catch block, part_000's callback gets err; both issue
\* editReply with the error text.
QueryFailed(r) ==
  /\ Alive
  /\ Opened
  /\ r.pc = "query"
  /\ r.st = "pending"
  /\ inv' = Step(r, [r EXCEPT !.st = "failed", !.stAtEdit = "failed",
                              !.out = Content("error"),
                              !.pc = IF program = "bot" THEN "catch" ELSE "edit"])
  /\ UNCHANGED <<boot, joins, program, pool, start, balances, nAdds, applied, history, credited, trip>>

\* part_000: the store executes the db.run of addBalance, which nothing awaits.
RunOk(r) ==
  /\ Alive
  /\ Opened
  /\ program = "legacy"
  /\ r.cmd \in Privileged
  /\ r.st = "pending"
  /\ inv' = Step(r, [r EXCEPT !.st = "ok", !.exec = TRUE])
  /\ balances' = Written(r)
  /\ Record(r)
  /\ UNCHANGED <<boot, joins, program, pool, start>>

\* part_000: the db.run fails; it has no callback, so the error is emitted
\* as an "error" event of the statement, which has no listener: the event
\* is thrown and ends the process.
RunFailed(r) ==
  /\ Alive
  /\ Opened
  /\ program = "legacy"
  /\ r.cmd \in Privileged
  /\ r.st = "pending"
  /\ Ends(r, [r EXCEPT !.st = "failed", !.esc = r.esc \cup {"store"}], "store")
  /\ UNCHANGED <<joins, program, pool, start, balances, nAdds, applied, history, credited, trip>>

\* editReply resolves: the content is shown.
EditDone(r) ==
  /\ Alive
  /\ r.pc \in {"edit", "catch"}
  /\ inv' = Step(r, [r EXCEPT !.reply = r.out, !.nReplies = r.nReplies + 1,
                              !.pc = "done"])
  /\ UNCHANGED <<boot, joins, program, pool, start, balances, nAdds, applied, history, credited, trip>>

\* The editReply was awaited inside try: bot.js, all but the returned
\* "No data yet" edit.
EditCaught(r) == program = "bot" /\ r.pc = "edit" /\ r.out.kind # "nodata"

\* editReply rejects.  Awaited inside try, the catch block issues the error
\* edit.  A rejection in the catch block or of the returned edit rejects
\* the handler of bot.js and ends the process.  The edits of part_000 are
\* not awaited: their rejection is a plain unhandled rejection, on which the
\* process ends or, started with --unhandled-rejections=warn, continues.
EditFailed(r) ==
  /\ Alive
  /\ r.pc \in {"edit", "catch"}
  /\ LET q == [r EXCEPT !.esc = r.esc \cup {"gateway"}, !.pc = "done"]
     IN  IF EditCaught(r)
         THEN /\ inv' = Step(r, [r EXCEPT !.out = Content("error"), !.pc = "catch"])
              /\ boot' = boot
         ELSE \/ Ends(r, q, "rejection")
              \/ /\ program = "legacy"
                 /\ inv' = Step(r, q)
                 /\ boot' = boot
  /\ UNCHANGED <<joins, program, pool, start, balances, nAdds, applied, history, credited, trip>>

\* The invocation that ended last is forgotten.
Retire(r) ==
  /\ Alive
  /\ Settled(r)
  /\ inv' = inv (-) SetToBag({r})
  /\ UNCHANGED <<boot, joins, program, pool, start, balances, nAdds, applied, history, credited, trip>>

Next ==
  \/ Receive
  \/ \E r \in Invs : ReplyDone(r)
  \/ \E r \in Invs : ReplyFailed(r)
  \/ \E r \in Invs : DeferFailed(r)
  \/ \E r \in Invs : BotAfterDefer(r)
  \/ \E r \in Invs : LegacyAfterDefer(r)
  \/ \E r \in Invs : Executed(r)
  \/ \E r \in Invs : QueryOk(r)
  \/ \E r \in Invs : ResultLost(r)
  \/ \E r \in Invs : QueryFailed(r)
  \/ \E r \in Invs : RunOk(r)
  \/ \E r \in Invs : RunFailed(r)
  \/ \E r \in Invs : EditDone(r)
  \/ \E r \in Invs : EditFailed(r)
  \/ \E r \in Invs : Retire(r)

Spec == Init /\ [][Next]_vars

\* Command handling in which every call awaited by a handler eventually
\* resolves or fails: the rejection reply, deferReply, the store statement
\* and its result, the db.run of part_000, editReply.
FairSpec ==
  /\ Spec
  /\ WF_vars(\E r \in Invs : ReplyDone(r) \/ ReplyFailed(r))
  /\ WF_vars(\E r \in Invs :
               DeferFailed(r) \/ BotAfterDefer(r) \/ LegacyAfterDefer(r))
  /\ WF_vars(\E r \in Invs : QueryFailed(r) \/ Executed(r))
  /\ WF_vars(\E r \in Invs : QueryOk(r) \/ ResultLost(r))
  /\ WF_vars(\E r \in Invs : RunFailed(r) \/ RunOk(r))
  /\ WF_vars(\E r \in Invs : EditDone(r) \/ EditFailed(r))

\* ------------------------------------------- startup and member provisioning
\* What the startup tasks and the guildMemberAdd handler never touch.
ledger == <<program, pool, start, balances, inv, nAdds, applied, history, credited, trip>>

\* bot.js: pool.connect() resolves and ensureDB issues CREATE TABLE.
\* part_000: the database file is opened and the queued CREATE TABLE runs.
DbConnected ==
  /\ Alive
  /\ boot.db = "connect"
  /\ boot' = [boot EXCEPT !.db = "ensure"]
  /\ UNCHANGED <<ledger, joins>>

\* The CREATE TABLE IF NOT EXISTS statement succeeds.
DbEnsured ==
  /\ Alive
  /\ boot.db = "ensure"
  /\ boot' = [boot EXCEPT !.db = "ok"]
  /\ UNCHANGED <<ledger, joins>>

\* The database task fails.  bot.js: the catch block of the IIFE logs it
\* and the handlers go on.  part_000: neither the Database constructor nor
\* db.run has a callback, so the error is emitted as an "error" event
\* without a listener, which ends the process and its handlers.
DbFailure ==
  /\ boot' = IF program = "bot"
             THEN [boot EXCEPT !.db = "failed", !.log = boot.log \cup {"db"}]
             ELSE [boot EXCEPT !.db = "failed", !.exit = "database"]
  /\ inv' = IF program = "bot" THEN inv ELSE BagOfAll(Cut, Unsettled(inv))
  /\ UNCHANGED <<joins, program, pool, start, balances, nAdds, applied, history, credited, trip>>

\* pool.connect() rejects / the sqlite file cannot be opened.
DbConnectFailed ==
  /\ Alive
  /\ boot.db = "connect"
  /\ DbFailure

\* The CREATE TABLE statement fails.
DbEnsureFailed ==
  /\ Alive
  /\ boot.db = "ensure"
  /\ DbFailure

\* rest.put(Routes.applicationCommands(CLIENT_ID), ...) resolves.
Registered ==
  /\ Alive
  /\ boot.reg = "put"
  /\ boot' = [boot EXCEPT !.reg = "ok"]
  /\ UNCHANGED <<ledger, joins>>

\* rest.put rejects: the catch block of the IIFE logs it.
RegisterFailed ==
  /\ Alive
  /\ boot.reg = "put"
  /\ boot' = [boot EXCEPT !.reg = "failed", !.log = boot.log \cup {"reg"}]
  /\ UNCHANGED <<ledger, joins>>

\* client.login(TOKEN) resolves: the gateway delivers events from now on.
LoggedIn ==
  /\ Alive
  /\ boot.login = "pending"
  /\ boot' = [boot EXCEPT !.login = "ready"]
  /\ UNCHANGED <<ledger, joins>>

\* client.login(TOKEN) rejects; nothing handles the promise, and whether
\* the runtime ends the process on an unhandled rejection depends on its
\* version and flags.
LoginFailed ==
  /\ Alive
  /\ boot.login = "pending"
  /\ \E x \in {"none", "login"} :
       boot' = [boot EXCEPT !.login = "failed", !.exit = x]
  /\ UNCHANGED <<ledger, joins>>

\* One guildMemberAdd handler activation.
\* pc: "fetch" guild.members.fetch(OWNER_ID) in flight; "create"
\*     guild.channels.create in flight; "send" verifyChannel.send in
\*     flight; "done" returned.
\* creates: channels.create calls issued; channel: the channel exists;
\* posted: the welcome message is in it; logged: the catch block has
\* logged an error; failedAt: the call that rejected.
FreshJoin ==
  [member |-> NoUser, pc |-> "fetch", creates |-> 0, channel |-> FALSE,
   posted |-> FALSE, logged |-> FALSE, failedAt |-> "none"]

Joins == BagToSet(joins)

\* The bag with one copy of j replaced by k.
JoinStep(j, k) == (joins (-) SetToBag({j})) (+) SetToBag({k})

\* A guildMemberAdd event is delivered and its handler runs to the first
\* await.
JoinReceive ==
  /\ Listening
  /\ Load < Room
  /\ \E m \in Members :
       joins' = joins (+) SetToBag({[FreshJoin EXCEPT !.member = m]})
  /\ UNCHANGED <<ledger, boot>>

\* The operator is fetched; guild.channels.create is issued.
JoinFetched(j) ==
  /\ Alive
  /\ j.pc = "fetch"
  /\ joins' = JoinStep(j, [j EXCEPT !.pc = "create", !.creates = j.creates + 1])
  /\ UNCHANGED <<ledger, boot>>

\* The channel is created; verifyChannel.send is issued.
JoinCreated(j) ==
  /\ Alive
  /\ j.pc = "create"
  /\ joins' = JoinStep(j, [j EXCEPT !.pc = "send", !.channel = TRUE])
  /\ UNCHANGED <<ledger, boot>>

\* The welcome message is posted; the handler logs and returns.
JoinSent(j) ==
  /\ Alive
  /\ j.pc = "send"
  /\ joins' = JoinStep(j, [j EXCEPT !.pc = "done", !.posted = TRUE])
  /\ UNCHANGED <<ledger, boot>>

\* A catch block that starts the provisioning over.
JoinFailedRetry(j) ==
  /\ Alive
  /\ j.pc \in {"fetch", "create", "send"}
  /\ joins' = JoinStep(j, [j EXCEPT !.pc = "fetch", !.logged = TRUE,
                                    !.failedAt = j.pc])
  /\ UNCHANGED <<ledger, boot>>

\* The awaited call rejects: the catch block logs the error and the
\* handler returns; a channel already created stays.
JoinFailed(j) ==
  /\ Alive
  /\ j.pc \in {"fetch", "create", "send"}
  /\ joins' = JoinStep(j, [j EXCEPT !.pc = "done", !.logged = TRUE,
                                    !.failedAt = j.pc])
  /\ UNCHANGED <<ledger, boot>>

\* A handler that has returned is forgotten.
JoinRetire(j) ==
  /\ Alive
  /\ j.pc = "done"
  /\ joins' = joins (-) SetToBag({j})
  /\ UNCHANGED <<ledger, boot>>

\* The program from the evaluation of its module on.
LifecycleInit ==
  /\ Started
  /\ boot = Boot0(program, pool)
  /\ joins = EmptyBag

LifecycleNext ==
  \/ DbConnected
  \/ DbEnsured
  \/ DbConnectFailed
  \/ DbEnsureFailed
  \/ Registered
  \/ RegisterFailed
  \/ LoggedIn
  \/ LoginFailed
  \/ JoinReceive
  \/ \E j \in Joins : JoinFetched(j)
  \/ \E j \in Joins : JoinCreated(j)
  \/ \E j \in Joins : JoinSent(j)
  \/ \E j \in Joins : JoinFailed(j)
  \/ \E j \in Joins : JoinRetire(j)
  \/ Next

Lifecycle == LifecycleInit /\ [][LifecycleNext]_vars

\* ---------------------------------------------------------------- claims
\* 1e-9 in units of 2^-55 (rounded down): 36028797.
Tol1e9 == <<0, 2, 2474365>>

\* |x - y| <= 1e-9
Within1e9(x, y) == ~MagLess(Tol1e9, ExactAdd(x, DNeg(y)).m)

\* k times 0.2, exactly.
ExactDeltas(k) ==
  Dbl(k < 0, MagMulSmall(VerifyDelta.m, IF k < 0 THEN -k ELSE k))

\* k times 0.2, rounded to a double.
RoundedDeltas(k) == Dbl(k < 0, RoundMag(ExactDeltas(k).m))

IsAdd(r) == r.cmd \in Privileged /\ r.st # "none"

PendingAdd(u) == \E r \in Invs : IsAdd(r) /\ r.inviter = u /\ r.st = "pending"

\* Two addBalance calls for u whose handlers were in flight together have
\* both been applied.
TwoAddsApplied(u) ==
  LET S == {r \in Invs : IsAdd(r) /\ r.inviter = u /\ r.exec}
  IN  Cardinality(S) >= 2 \/ \E r \in S : CopiesIn(r, inv) >= 2

\* C1 as stated: once no addBalance call for u is pending, the stored
\* balance of u equals its prior value plus the sum of the deltas of the
\* completed calls.
C1_SumExact ==
  \A u \in Users :
    ~PendingAdd(u) =>
      BalanceOf(balances, u) = FloatAdd(BalanceOf(StartTable, u), RoundedDeltas(applied[u]))

\* The balance b after the upserts whose signs are s, added one at a time in
\* double precision.
RECURSIVE Folded(_, _)
Folded(b, s) ==
  IF s = <<>> THEN b
  ELSE Folded(FloatAdd(b, IF Head(s) = 1 THEN VerifyDelta ELSE UnverifyDelta),
              Tail(s))

\* The sum of the signs s.
RECURSIVE Net(_)
Net(s) == IF s = <<>> THEN 0 ELSE Head(s) + Net(Tail(s))

\* The addBalance calls for u that have been executed and whose handler
\* record is still kept.
ExecutedAdds(u) ==
  LET S == {r \in Invs : IsAdd(r) /\ r.inviter = u /\ r.exec}
  IN  BagCardinality([r \in S |-> inv[r]])

\* C1 amended: once no addBalance call for u is pending, the stored balance
\* of u is its prior value with the deltas of the completed calls added one
\* at a time, in the order the store executed them, each addition rounded
\* to double precision: every call is applied exactly once, none is lost.
C1_NoLostUpdate ==
  \A u \in Users :
    ~PendingAdd(u) =>
      /\ BalanceOf(balances, u) = Folded(BalanceOf(StartTable, u), history[u])
      /\ Net(history[u]) = applied[u]
      /\ ExecutedAdds(u) <= Len(history[u])

C1_Witness ==
  \E u \in Users :
    /\ ~PendingAdd(u) /\ TwoAddsApplied(u) /\ history[u] = <<1, -1>>
    /\ BalanceOf(balances, u) # BalanceOf(StartTable, u)

Unauthorized(r) == r.cmd \in Privileged /\ r.user # OWNER_ID

\* C2: a verify / unverify invoked by anyone but the owner issues no store
\* call and is never acknowledged by deferReply; its only response is the
\* private rejection, issued at once; no step of such an invocation changes
\* the balances table.
C2_UnauthorizedRejected ==
  [][/\ \A r \in BagToSet(inv') :
          Unauthorized(r) =>
            /\ r.st = "none" /\ ~r.acked /\ "store" \notin r.esc
            /\ r.pc \in {"reply", "done", "lost"}
            /\ r.reply.kind \in {"none", "reject"}
            /\ (r.pc = "done" /\ r.esc = {}) =>
                 (r.reply.kind = "reject" /\ r.vis = "private" /\ r.nReplies = 1)
     /\ (\E r \in BagToSet(inv') :
           Unauthorized(r) /\ CopiesIn(r, inv') > CopiesIn(r, inv))
          => balances' = balances]_vars

C2_Witness ==
  \E r \in Invs :
    /\ Unauthorized(r) /\ r.pc = "done" /\ r.reply.kind = "reject"
    /\ r.inviter # r.member
    /\ balances # EmptyTable
    /\ \E q \in Invs : IsAdd(q) /\ q.exec

\* C3: a verify whose confirmation has been shown, with a store configured,
\* has had its +0.2 applied.
C3_ConfirmedIsApplied ==
  \A r \in Invs :
    (pool /\ r.cmd = "verify" /\ r.reply.kind = "verified") => r.exec

\* C4 as stated: after a verify of u directly followed by an unverify of u,
\* getBalance(u) equals the balance before the verify.
C4_RoundTripExact ==
  \A u \in Users :
    trip[u].phase = "undone" => BalanceOf(balances, u) = trip[u].before

\* C4 amended: after a verify of u directly followed by an unverify of u,
\* getBalance(u) is within 1e-9 of the balance before the verify.
C4_RoundTrip ==
  \A u \in Users :
    trip[u].phase = "undone" => Within1e9(BalanceOf(balances, u), trip[u].before)

C4_Witness ==
  \E u \in Users :
    /\ trip[u].phase = "undone"
    /\ trip[u].before = Credited(2)
    /\ BalanceOf(balances, u) # trip[u].before

\* C5: a user no addBalance was ever applied to has balance 0, whatever was
\* applied to others, and a balance reply built for that user shows 0.00.
C5_NeverCreditedIsZero ==
  \A u \in Users \ credited :
    /\ BalanceOf(balances, u) = DZero
    /\ \A r \in Invs :
         (r.cmd = "balance" /\ r.user = u /\ r.out.kind = "balance") =>
           (r.out.cents = 0 /\ ~r.out.neg)

C5_Witness ==
  \E u \in Users \ credited :
    /\ \E v \in credited \cap Users : BalanceOf(balances, v) # DZero
    /\ \E r \in Invs : r.cmd = "balance" /\ r.user = u /\ r.reply.kind = "balance"

Limits == (1..MaxLimit) \cup {LeaderboardLimit}

\* C6: while a getLeaderboard call awaits the store, getLeaderboard(n)
\* returns at most n rows in non-increasing balance order, and the table
\* as it stands yields one sequence only.
C6_LeaderboardDeterministic ==
  (\E r \in Invs : r.cmd = "leaderboard" /\ r.st = "pending") =>
    \A n \in Limits :
      \A rs \in SelectTop(balances, n) :
        /\ Len(rs) <= n
        /\ \A k \in 1..(Len(rs) - 1) : ~DLess(rs[k].balance, rs[k + 1].balance)
        /\ \A qs \in SelectTop(balances, n) : qs = rs

Min(a, b) == IF a < b THEN a ELSE b

\* The invocations that took a step from bag b to bag c, as they were
\* before it: an invocation that is not over leaves b only by stepping, or
\* all do when the process ends.
Stepped(b, c) ==
  {r \in BagToSet(b) : ~Settled(r) /\ CopiesIn(r, c) < CopiesIn(r, b)}

\* The handler records a step from bag b to bag c has produced.
Arrived(b, c) == {q \in BagToSet(c) : CopiesIn(q, c) > CopiesIn(q, b)}

\* The reply the leaderboard handler builds from k rows.
RankedTo(out, k) ==
  IF k = 0 THEN out = Content("nodata")
  ELSE /\ out.kind = "board"
       /\ Len(out.lines) = k
       /\ \A j \in 1..k : out.lines[j].rank = j

\* C7: when the store executes getLeaderboard's statement it returns no row
\* if the table holds none, else k = min(15, number of rows) rows; from no
\* row (and without a pool) the handler builds "no data yet", from k rows a
\* list ranked 1..k.
C7_LeaderboardReply ==
  [][\A r \in Stepped(inv, inv') : \A q \in Arrived(inv, inv') :
       (r.cmd = "leaderboard" /\ q.cmd = "leaderboard" /\ boot' = boot) =>
         /\ (r.st = "pending" /\ q.st = "ok") =>
              Len(q.rows) = Min(15, Cardinality(DOMAIN balances))
         /\ (r.st = "ok" /\ r.pc = "query" /\ q.pc = "edit") =>
              RankedTo(q.out, Len(r.rows))
         /\ (r.pc = "defer" /\ q.pc = "edit") => RankedTo(q.out, 0)]_vars

C7_Witness ==
  \E r \in Invs :
    /\ r.cmd = "leaderboard" /\ r.reply.kind = "board"
    /\ Len(r.reply.lines) = 15
    /\ r.reply.lines[15].rank = 15
    /\ Cardinality(DOMAIN balances) > 15

\* C8: every invocation that called the store was acknowledged when the
\* call was issued, and its editReply was issued only once the call had
\* resolved or failed.
C8_AckThenStoreThenEdit ==
  \A r \in Invs :
    r.st # "none" =>
      /\ r.ackAtQuery
      /\ r.pc \in {"edit", "catch"} => r.stAtEdit \in {"ok", "failed"}

\* C9: an invocation whose store call failed lets no error escape the
\* handler and does not end the process, its statement has changed no
\* balance, and once the handler has returned (its gateway calls having
\* succeeded) the reply is the generic error text.
C9_StoreFailureHandled ==
  /\ boot.exit # "store"
  /\ \A r \in Invs :
       r.st = "failed" =>
         /\ "store" \notin r.esc
         /\ ~r.exec
         /\ (r.pc = "done" /\ r.esc = {}) => r.reply.kind = "error"

\* What each command replies on an empty store.
EmptyStoreContent(cmd) ==
  CASE cmd = "balance"     -> [kind |-> "balance", neg |-> FALSE, cents |-> 0, lines |-> <<>>]
    [] cmd = "verify"      -> [kind |-> "verified", neg |-> FALSE, cents |-> 0, lines |-> <<>>]
    [] cmd = "unverify"    -> [kind |-> "unverified", neg |-> FALSE, cents |-> 0, lines |-> <<>>]
    [] cmd = "leaderboard" -> [kind |-> "nodata", neg |-> FALSE, cents |-> 0, lines |-> <<>>]
    [] OTHER               -> NoContent

\* No store call is issued and the table is empty; the store functions
\* give what an empty store gives and the handlers reply accordingly.
NoPoolStore ==
  /\ balances = EmptyTable
  /\ \A u \in Users : BalanceOf(balances, u) = DZero
  /\ SelectTop(balances, LeaderboardLimit) = {<<>>}
  /\ \A r \in Invs :
       /\ r.st = "none" /\ ~r.exec /\ "store" \notin r.esc
       /\ r.pc = "edit" => r.out = EmptyStoreContent(r.cmd)
       /\ r.reply.kind \notin {"none", "reject", "error"} =>
            r.reply = EmptyStoreContent(r.cmd)

\* C10: without a pool no store call is ever issued and the table stays
\* empty; getBalance gives 0 and getLeaderboard gives [] (balance replies
\* 0.00, leaderboard "no data yet"), addBalance raises nothing, and no
\* handler ends the process.
C10_NoPoolDegrades ==
  ~pool => (NoPoolStore /\ boot.exit \notin {"rejection", "store"})

\* A startup task is over: it has succeeded, failed, or was never started.
TaskOver(x) == x \in {"off", "ok", "failed"}

\* A command or member-join event is delivered in the step from the bags
\* b, j to the bags c, k: a handler record arrives and none has stepped.
Delivery(b, c, j, k) ==
  \/ Arrived(b, c) # {} /\ Stepped(b, c) = {}
  \/ BagCardinality(k) > BagCardinality(j)

\* C11: startup is ordered: the registration task ends only after the
\* database task has ended, the client is logged in only after both have
\* ended, and every command or member-join event is delivered with both
\* tasks ended.
C11_StartupOrdered ==
  [][/\ TaskOver(boot'.reg) => TaskOver(boot'.db)
     /\ boot'.login = "ready" => (TaskOver(boot'.db) /\ TaskOver(boot'.reg))
     /\ Delivery(inv, inv', joins, joins') =>
          (TaskOver(boot.db) /\ TaskOver(boot.reg))]_vars

\* C12: a failure of the database task or of the registration task is
\* logged and does not end the process.
C12_StartupFailuresNotFatal ==
  /\ boot.exit # "database"
  /\ boot.db = "failed" => "db" \in boot.log
  /\ boot.reg = "failed" => "reg" \in boot.log

\* C13: no step removes a record; a step of a balance or leaderboard
\* invocation or of a rejected verify / unverify, and the arrival or the
\* forgetting of an invocation, leave the table as it is; the table changes
\* only in a step of an authorized verify / unverify whose addBalance call
\* was pending.
C13_OnlyAddBalanceWrites ==
  [][/\ DOMAIN balances \subseteq DOMAIN balances'
     /\ \A r \in Stepped(inv, inv') :
          (r.cmd \in {"balance", "leaderboard"} \/ Unauthorized(r))
            => balances' = balances
     /\ balances' # balances =>
          \E r \in Stepped(inv, inv') :
            r.cmd \in Privileged /\ r.user = OWNER_ID /\ r.st = "pending"]_vars

C13_Witness ==
  /\ DOMAIN balances # DOMAIN StartTable
  /\ \E r \in Invs : Unauthorized(r)
  /\ \E r \in Invs : r.cmd = "leaderboard" /\ r.reply.kind = "board"

\* C14: a reply to a balance invocation, result or error, is private; a
\* reply to an authorized verify / unverify or to a leaderboard invocation
\* is public; the rejection of an unauthorized verify / unverify is private.
C14_ReplyVisibility ==
  \A r \in Invs :
    r.reply.kind # "none" =>
      r.vis = IF r.cmd = "balance" \/ Unauthorized(r) THEN "private" ELSE "public"

C14_Witness ==
  /\ \E r \in Invs : r.cmd = "balance" /\ r.reply.kind = "error" /\ r.vis = "private"
  /\ \E r \in Invs :
       r.cmd = "verify" /\ r.user = OWNER_ID /\ r.out.kind = "verified" /\ r.vis = "public"

\* The handler records two bags have in common.
Common(b, c) == [x \in BagToSet(b) \cap BagToSet(c) |-> Min(b[x], c[x])]

\* C15: a guildMemberAdd handler issues at most one guild.channels.create;
\* a rejection of members.fetch, channels.create or send is logged by the
\* catch block and the handler has then returned, with nothing retried and
\* nothing undone (a channel created before a failed send stays, without
\* the welcome message); a step of a handler changes that handler alone:
\* the process goes on, and the other join handlers, the command
\* invocations and the balances table are as they were.
C15_ProvisioningContained ==
  [][/\ \A j \in BagToSet(joins') :
          /\ j.creates <= 1
          /\ j.failedAt = "none" => ~j.logged
          /\ j.failedAt # "none" =>
               /\ j.pc = "done" /\ j.logged /\ ~j.posted
               /\ j.creates = (IF j.failedAt = "fetch" THEN 0 ELSE 1)
               /\ j.channel = (j.failedAt = "send")
     /\ joins' # joins =>
          /\ boot'.exit = boot.exit
          /\ ledger' = ledger
          /\ BagCardinality(joins) - BagCardinality(Common(joins, joins')) <= 1
          /\ BagCardinality(joins') - BagCardinality(Common(joins, joins')) <= 1]_vars

C15_Witness ==
  /\ Alive
  /\ \E j \in Joins : j.failedAt = "send" /\ j.channel /\ j.logged /\ j.pc = "done"
  /\ \E j \in Joins : j.failedAt = "none" /\ j.pc = "send" /\ j.creates = 1

\* The authorized verify / unverify invocations whose pending addBalance
\* call a step from bag b to bag c may have completed.
AddsStepped(b, c) ==
  {r \in Stepped(b, c) :
     r.cmd \in Privileged /\ r.user = OWNER_ID /\ r.st = "pending"}

\* C16 as stated: the completed addBalance call of a verify / unverify
\* changes the inviter's balance by exactly 0.2 / -0.2, and every balance
\* equals its prior value plus 0.2 times the verifies less the unverifies
\* applied to it.
C16_ExactDelta ==
  [][applied' # applied =>
       \E r \in AddsStepped(inv, inv') :
         /\ ExactAdd(BalanceOf(balances', r.inviter),
                     DNeg(BalanceOf(balances, r.inviter))) = Delta(r.cmd)
         /\ \A u \in Users :
              BalanceOf(balances', u) =
                FloatAdd(BalanceOf(StartTable, u), RoundedDeltas(applied'[u]))]_vars

\* The upserts ever completed for u, those of earlier runs first.
Upserts(u, h) ==
  (IF start = "prior" /\ u \in DOMAIN PriorVerifies
   THEN [i \in 1..PriorVerifies[u] |-> 1] ELSE <<>>)
  \o (IF u \in Users THEN h[u] ELSE <<>>)

\* C16 amended: the completed addBalance call of an authorized verify /
\* unverify changes the inviter's record alone, creating it if absent: its
\* balance becomes the double nearest to balance + 0.2 / balance - 0.2;
\* the member's and every other balance are unchanged; every balance is
\* what adding, from 0 and one at a time in double precision, +0.2 for each
\* verify and -0.2 for each unverify applied to it gives, in the order they
\* were applied, and a user without a record has had none applied.
C16_OneRecordByDelta ==
  [][applied' # applied =>
       \E r \in AddsStepped(inv, inv') :
         /\ DOMAIN balances' = DOMAIN balances \cup {r.inviter}
         /\ BalanceOf(balances', r.inviter) =
              FloatAdd(BalanceOf(balances, r.inviter), Delta(r.cmd))
         /\ \A u \in DOMAIN balances' \ {r.inviter} : balances'[u] = balances[u]
         /\ r.member # r.inviter =>
              BalanceOf(balances', r.member) = BalanceOf(balances, r.member)
         /\ applied' = [applied EXCEPT ![r.inviter] = applied[r.inviter] + Sign(r.cmd)]
         /\ \A u \in DOMAIN balances' \cup Users :
              /\ BalanceOf(balances', u) = Folded(DZero, Upserts(u, history'))
              /\ u \notin DOMAIN balances' => Upserts(u, history') = <<>>]_vars

C16_Witness ==
  /\ start = "prior"
  /\ applied["u1"] = 1
  /\ balances["u1"] = Credited(3)
  /\ \A m \in Members : m \notin DOMAIN balances
  /\ \E r \in Invs : r.cmd = "verify" /\ r.st = "ok" /\ r.member # r.inviter

\* C17: an unverify by the operator is never rejected; with a store its
\* addBalance call is issued once it is acknowledged, whatever the table
\* holds and whatever was applied before; where a pending call ends in a
\* store failure its success was possible in the same state, so that no
\* table and no history forces a refusal; and its success takes 0.2 off
\* the inviter's balance (an absent record counting as 0) whatever that
\* balance is, so that the result may be negative.
C17_UnverifyUnconditional ==
  [][/\ \A r \in Invs :
          (r.cmd = "unverify" /\ r.user = OWNER_ID) =>
            /\ r.pc # "reply" /\ r.reply.kind # "reject"
            /\ (pool /\ r.acked) => r.st # "none"
     /\ applied' = applied =>
          \A r \in AddsStepped(inv, inv') :
            (r.cmd = "unverify" /\ \E q \in Arrived(inv, inv') : q.st = "failed")
              => ENABLED (Executed(r) \/ RunOk(r))
     /\ applied' # applied =>
          \A r \in AddsStepped(inv, inv') :
            r.cmd = "unverify" =>
            /\ applied'[r.inviter] = applied[r.inviter] - 1
            /\ SelectBalance(balances', r.inviter) # <<>>
            /\ BalanceOf(balances', r.inviter) =
                 FloatAdd(BalanceOf(balances, r.inviter), UnverifyDelta)]_vars

C17_Witness ==
  /\ start = "empty"
  /\ applied["u1"] = -1
  /\ balances = [u \in {"u1"} |-> UnverifyDelta]
  /\ \E r \in Invs : r.cmd = "unverify" /\ r.st = "ok"

\* The table t without its rows of balance 0.
NonZeroRows(t) == [u \in {v \in DOMAIN t : t[v] # DZero} |-> t[u]]

\* What balance replies to each user, and what leaderboard may reply, on
\* table t.
BalanceReplies(t) == [u \in Users |-> BalanceContent(SelectBalance(t, u))]

BoardReplies(t) == {BoardContent(rows) : rows \in SelectTop(t, LeaderboardLimit)}

\* C18: the replies of balance and of leaderboard are the same on the
\* table as it stands and on the table without its zero-balance records.
C18_ZeroRecordAsAbsent ==
  /\ BalanceReplies(balances) = BalanceReplies(NonZeroRows(balances))
  /\ BoardReplies(balances) = BoardReplies(NonZeroRows(balances))

\* An invocation of cmd by user is in flight.
InFlight(cmd, user) ==
  \E r \in Invs : r.cmd = cmd /\ r.user = user /\ ~Settled(r)

\* An invocation of cmd by user is over and has got exactly one content
\* reply.
Answered(cmd, user) ==
  \E r \in Invs :
    /\ r.cmd = cmd /\ r.user = user /\ Settled(r)
    /\ r.nReplies = 1 /\ r.reply.kind # "none"

\* C19: every invocation of balance, verify, unverify or leaderboard is
\* eventually over with exactly one content reply.
C19_EventuallyOneReply ==
  \A cmd \in Commands \ {"other"}, user \in Users :
    InFlight(cmd, user) ~> Answered(cmd, user)

\* C20: a verify / unverify invocation answered with "Error updating
\* balance." has not had its addBalance call applied.
C20_ErrorMeansUnchanged ==
  \A r \in Invs :
    (r.cmd \in Privileged /\ r.reply.kind = "error") => ~r.exec

====
